---- MODULE Spec2Model ----
(***************************************************************************)
(* Lifecycle of the CSE server process: Service.update_status, and         *)
(* Service.run with its startup stages, worker spawn loop, polling loop    *)
(* and consumer shutdown (container_service_extension/service.py).         *)
(***************************************************************************)
EXTENDS Integers, Sequences, FiniteSets, TLC

\* ------------------------------------------------------------------ bounds
MaxListeners == 2
MaxRequests == 2
MaxPolls == 3
MaxCallers == 2

\* --------------------------------------------------------------- constants
\* ServerState (service.py 76-81)
RUNNING == "Running"
DISABLED == "Disabled"
STOPPING == "Shutting down"
STOPPED == "Stopped"
ServerState == {RUNNING, DISABLED, STOPPING, STOPPED}

\* ServerAction (shared_constants, imported at service.py 39); INVALID stands
\* for any value that is none of the three members.
ENABLE == "ENABLE"
DISABLE == "DISABLE"
STOP == "STOP"
INVALID == "INVALID"
ServerAction == {ENABLE, DISABLE, STOP}
ActionValues == ServerAction \cup {INVALID}

\* vCDApiVersion.VERSION_35 (service.py 216)
VERSION_35 == 35
ApiVersions == {34, 35}

\* ------------------------------------------------------------- revisions
\* A template revision is an int or a string in the catalog metadata and in
\* the config; the code compares str(revision).  A revision value is a token
\* "i<k>" (the int k) or "s<k>" (the string "k"); Str is str().
Revisions == {"i1", "s1", "i2"}
Str(r) == CASE r = "i1" -> "1"
            [] r = "s1" -> "1"
            [] r = "i2" -> "2"
            [] OTHER -> r

\* LocalTemplateKey.CATALOG_ITEM_NAME of the template named nm.
CatalogItem(nm) == CASE nm = "ubuntu" -> "ubuntu.ova"
                     [] nm = "photon-v2" -> "photon-v2.ova"
                     [] OTHER -> nm

Template(nm, rev, pol) ==
    [name |-> nm, revision |-> rev, compute_policy |-> pol,
     catalog_item_name |-> CatalogItem(nm)]

\* Results of ltm.get_all_k8s_local_template_definition (service.py 395).
CatalogResults ==
    { << >>,
      << Template("ubuntu", "s1", "") >>,
      << Template("photon-v2", "i2", "p1") >>,
      << Template("ubuntu", "s1", "p1"), Template("photon-v2", "s1", "") >> }

\* The validated content of the config file (service.py 197-204).
Configs ==
    [ listeners : 0..MaxListeners,
      api_version : ApiVersions,
      default_template_name : {"photon-v2"},
      default_template_revision : {"i1"},
      template_rules : { << >> } ]

\* A template rule of the config file (service.py 448-453): the name of the
\* templates it targets and the compute policy it gives them.
Rule(target, pol) == [target |-> target, compute_policy |-> pol]

\* Values of config['template_rules'].
RuleLists ==
    { << >>,
      << Rule("photon-v2", "p1") >>,
      << Rule("photon-v2", "p1"), Rule("photon-v2", "p2") >>,
      << Rule("photon-v2", "p2"), Rule("photon-v2", "p1") >>,
      << Rule("ubuntu", ""), Rule("centos", "p2") >> }

\* Config files of a server without listeners, with a list of template
\* rules or without the 'template_rules' key.
StartupConfigs ==
    [ listeners : {0},
      api_version : ApiVersions,
      default_template_name : {"photon-v2"},
      default_template_revision : {"i1"},
      template_rules : RuleLists ]
    \cup
    [ listeners : {0},
      api_version : ApiVersions,
      default_template_name : {"photon-v2"},
      default_template_revision : {"i1"} ]

\* The compute policy backend of the platform (ComputePolicyManager,
\* service.py 477-515): the names of the policies that exist, and the
\* operation, if any, that the platform does not support.
PolicyNames == {"p1", "p2"}
CpmOps == {"init", "get", "add", "assign", "remove"}
Platforms == [ policies : SUBSET PolicyNames, unsupported : CpmOps \cup {"none"} ]
DefaultPlatform == [ policies |-> {}, unsupported |-> "none" ]

\* policy['href'] (service.py 500)
Href(p) == CASE p = "p1" -> "href-p1"
             [] p = "p2" -> "href-p2"
             [] OTHER -> "href"

VARIABLES
    pc,            \* position of run() in the main thread
    state,         \* Service._state
    config,        \* Service.config (content of the config file)
    k8_templates,  \* << >>, or << r >> once the catalog query returned r
    templates,     \* config['broker']['templates']
    nativeInterface, nativeEntityType,   \* Service._nativeInterface / _nativeEntityType
    openSessions,  \* platform sessions logged in and not yet logged out
    logins,        \* platform sessions logged in so far
    platform,      \* the compute policy backend of the platform
    cpmCalls,      \* calls made to the compute policy backend, in order
    stages,        \* startup stages begun so far, in order
    n,             \* loop index of the spawn loop
    threads,       \* Service.threads
    consumers,     \* Service.consumers
    started,       \* indexes of the worker threads whose start() returned
    failures,      \* spawn-loop iterations ended by the except Exception clause
    requests,      \* live VcdBroker threads (threading.enumerate())
    polls,         \* number of polls made while the state was STOPPING
    lastCount,     \* active-request count seen by the last of them (-1: none)
    interrupts,    \* KeyboardInterrupts so far: caught in the "spawn" loop, caught
                   \* in the "poll" loop, or "uncaught" (it left run())
    stopCalls,     \* consumers on which run() called stop(), in order
    stopErrors,    \* consumers whose stop(), called by run(), raised an error
    ownStops,      \* workers whose run loop raised and who stopped their consumer
    result,        \* last update_status call: state before, message or error
    statusCalls,   \* per calling thread, the update_status call it is in
    exitCode       \* exit status given to sys.exit (0: sys.exit not called)

vars == << pc, state, config, k8_templates, templates, nativeInterface, nativeEntityType,
           openSessions, logins, platform, cpmCalls, stages, n, threads, consumers, started, failures,
           requests, polls, lastCount, interrupts, stopCalls, stopErrors,
           ownStops, result, statusCalls, exitCode >>

startupVars == << k8_templates, templates, nativeInterface, nativeEntityType,
                 openSessions, logins, platform, cpmCalls >>
workerVars == << n, threads, consumers, started, failures >>
pollVars == << polls, lastCount >>
crashVars == << ownStops, stopErrors >>

NoResult == [before |-> STOPPED, kind |-> "none", text |-> "", n |-> 0]

\* The threads that call update_status, and a thread that is in no call.
Callers == 1..MaxCallers
Idle == [at |-> "idle", action |-> "", n |-> 0]

\* Service.__init__ (service.py 85-99)
Constructed ==
    /\ pc = "config"
    /\ state = STOPPED
    /\ k8_templates = << >>
    /\ templates = << >>
    /\ nativeInterface = FALSE
    /\ nativeEntityType = FALSE
    /\ openSessions = 0
    /\ logins = 0
    /\ cpmCalls = << >>
    /\ stages = << >>
    /\ n = 0
    /\ threads = << >>
    /\ consumers = << >>
    /\ started = {}
    /\ failures = 0
    /\ requests = 0
    /\ polls = 0
    /\ lastCount = -1
    /\ interrupts = {}
    /\ stopCalls = << >>
    /\ stopErrors = {}
    /\ ownStops = {}
    /\ result = NoResult
    /\ statusCalls = [t \in Callers |-> Idle]
    /\ exitCode = 0

\* A constructed service, its config file read by run() (service.py
\* 197-204), on a platform where every compute policy is yet to be created.
Init ==
    /\ Constructed
    /\ config \in Configs
    /\ platform = DefaultPlatform

\* A constructed service without listeners, on any platform.
InitStartup ==
    /\ Constructed
    /\ config \in StartupConfigs
    /\ platform \in Platforms

\* ---------------------------------------------------------- update_status
\* threading.enumerate() (service.py 113): the live threads, by type.
LiveThreads ==
    [ MainThread |-> 1, MessageConsumer |-> Cardinality(started \ ownStops),
      VcdBroker |-> requests ]

\* Service.active_requests_count (service.py 110-117): the number of live
\* threads whose type is VcdBroker.
active_requests_count(live) == live.VcdBroker

Ok(st, text, k) == [state |-> st, kind |-> "ok", text |-> text, n |-> k]
BadRequestError(st, text) ==
    [state |-> st, kind |-> "BadRequestError", text |-> text, n |-> 0]
CseServerError(st) ==
    [state |-> st, kind |-> "CseServerError", text |-> "Invalid server state",
     n |-> 0]

\* graceful_shutdown (service.py 154-160)
graceful_shutdown(k) ==
    IF k > 0
    THEN Ok(STOPPING, "Shutting down CSE CSE will finish processing n requests.", k)
    ELSE Ok(STOPPING, "Shutting down CSE", 0)

\* The body of Service.update_status (service.py 162-194): the new state and
\* the outcome (a returned message, or the error raised) for state st,
\* action a and k active requests.
transition(st, a, k) ==
    IF st = RUNNING /\ a = ENABLE
        THEN Ok(st, "CSE is already enabled and running.", 0)
    ELSE IF st = RUNNING /\ a = DISABLE
        THEN Ok(DISABLED, "CSE has been disabled.", 0)
    ELSE IF st = RUNNING /\ a = STOP
        THEN BadRequestError(st, "CSE must be disabled before it can be stopped.")
    ELSE IF st = RUNNING
        THEN BadRequestError(st, "Invalid server action")
    ELSE IF st = DISABLED /\ a = ENABLE
        THEN Ok(RUNNING, "CSE has been enabled and is running.", 0)
    ELSE IF st = DISABLED /\ a = DISABLE
        THEN Ok(st, "CSE is already disabled.", 0)
    ELSE IF st = DISABLED /\ a = STOP
        THEN graceful_shutdown(k)
    ELSE IF st = STOPPING /\ a = ENABLE
        THEN BadRequestError(st, "Cannot enable CSE while it is beingstopped.")
    ELSE IF st = STOPPING /\ a = DISABLE
        THEN BadRequestError(st, "Cannot disable CSE while it is being stopped.")
    ELSE IF st = STOPPING /\ a = STOP
        THEN graceful_shutdown(k)
    ELSE CseServerError(st)

\* update_status with DISABLE in state RUNNING answering without disabling.
update_status_disable_lost(st, a, k) ==
    IF st = RUNNING /\ a = DISABLE
    THEN Ok(st, "CSE has been disabled.", 0)
    ELSE transition(st, a, k)

\* update_status setting STOPPING before it rejects STOP in state RUNNING.
update_status_stop_leaks(st, a, k) ==
    IF st = RUNNING /\ a = STOP
    THEN BadRequestError(STOPPING,
                         "CSE must be disabled before it can be stopped.")
    ELSE transition(st, a, k)

\* update_status answering a repeated STOP with an error.
update_status_stop_once(st, a, k) ==
    IF st = STOPPING /\ a = STOP
    THEN BadRequestError(st, "CSE is already being stopped.")
    ELSE transition(st, a, k)

\* update_status accepting STOP in state RUNNING.
update_status_stop_from_running(st, a, k) ==
    IF st = RUNNING /\ a = STOP
    THEN graceful_shutdown(k)
    ELSE transition(st, a, k)

\* Service.update_status (service.py 153-194)
update_status(st, a, k) == transition(st, a, k)

ProcessAlive == pc \notin {"exited", "raised", "done"}

\* A caller invokes Service.update_status(a) (service.py 153-194).
UpdateStatus(a) ==
    /\ ProcessAlive
    /\ LET r == update_status(state, a, active_requests_count(LiveThreads)) IN
        /\ state' = r.state
        /\ result' = [before |-> state, kind |-> r.kind, text |-> r.text,
                      n |-> r.n]
    /\ UNCHANGED << pc, config, statusCalls, crashVars, startupVars, stages, workerVars, requests,
                    pollVars, interrupts, stopCalls, exitCode >>

\* ------------------------------------------- update_status, step by step
\* One step of a call of update_status (service.py 153-194) that is at
\* position c.at with action c.action, made when the state reads st and k
\* requests are active: the next position of the call ("idle" when the call
\* returns or raises), the count it holds, and the state it writes ("" when
\* the step writes none).  Each step reads the state once or writes it once.
update_status_step(c, st, k) ==
    LET a == c.action
        goto(at) == [at |-> at, action |-> a, n |-> c.n, write |-> ""]
        leave == [at |-> "idle", action |-> "", n |-> 0, write |-> ""]
        write(v) == [at |-> "idle", action |-> "", n |-> 0, write |-> v]
    IN
    CASE c.at = "check_running" ->        \* if self._state == RUNNING (162)
            IF st = RUNNING
            THEN IF a = DISABLE THEN goto("write_disabled") ELSE leave
            ELSE goto("check_disabled")
      [] c.at = "check_disabled" ->       \* if self._state == DISABLED (176)
            IF st = DISABLED
            THEN IF a = ENABLE THEN goto("write_running")
                 ELSE IF a = DISABLE THEN leave
                 ELSE IF a = STOP THEN goto("count")
                 ELSE goto("check_stopping")
            ELSE goto("check_stopping")
      [] c.at = "check_stopping" ->       \* if self._state == STOPPING (183)
            IF st = STOPPING /\ a = STOP THEN goto("count") ELSE leave
      [] c.at = "count" ->                \* n = self.active_requests_count() (156)
            [at |-> "write_stopping", action |-> a, n |-> k, write |-> ""]
      [] c.at = "write_disabled" -> write(DISABLED)    \* 167
      [] c.at = "write_running" -> write(RUNNING)      \* 178
      [] c.at = "write_stopping" -> write(STOPPING)    \* 159

\* Thread t calls update_status(a) (service.py 153).
CallBegin(t, a) ==
    /\ ProcessAlive
    /\ started # {}
    /\ statusCalls[t] = Idle
    /\ statusCalls' = [statusCalls EXCEPT ![t] =
                          [at |-> "check_running", action |-> a, n |-> 0]]
    /\ UNCHANGED << pc, state, config, crashVars, startupVars, stages,
                    workerVars, requests, pollVars, interrupts, stopCalls,
                    result, exitCode >>

\* Thread t makes the next step of its call of update_status.
CallStep(t) ==
    /\ statusCalls[t] # Idle
    /\ LET r == update_status_step(statusCalls[t], state,
                                   active_requests_count(LiveThreads)) IN
        /\ statusCalls' = [statusCalls EXCEPT ![t] =
                              [at |-> r.at, action |-> r.action, n |-> r.n]]
        /\ state' = IF r.write = "" THEN state ELSE r.write
    /\ UNCHANGED << pc, config, crashVars, startupVars, stages, workerVars,
                    requests, pollVars, interrupts, stopCalls, result,
                    exitCode >>

\* ------------------------------------------------------------ run: startup
\* An uncaught exception leaves run(): nothing in run() catches it.
Raise == pc' = "raised"

\* sys.exit(1) (service.py 305, 403, 427)
SysExit1 == pc' = "exited" /\ exitCode' = 1

\* A login (vcd_utils.get_sys_admin_client at service.py 329 and 476,
\* client.set_credentials at 391) opens a session on the platform.
login(sessions) == sessions + 1

\* client.logout() (service.py 365, 432, 523) ends the session of a client
\* that has one.
logout(session, sessions) == IF session THEN sessions - 1 ELSE sessions

\* The logout made at the end of the try block, so only when the block
\* returned.
logout_on_return(client, session, exit, sessions) ==
    IF client /\ exit = "return" THEN logout(session, sessions) ELSE sessions

\* finally: if client: client.logout() (service.py 363-365, 430-432,
\* 521-523).  The clause runs however the try block was left: exit is
\* "return", "skip" (the except clause that reports an unsupported feature),
\* "sys_exit" or "raise".
finally_logout(client, session, exit, sessions) ==
    IF client THEN logout(session, sessions) ELSE sessions

\* get_validated_config and populate_vsphere_list (service.py 197-206)
LoadConfig ==
    /\ pc = "config"
    /\ \E ok \in BOOLEAN : IF ok THEN pc' = "schema" ELSE Raise
    /\ UNCHANGED << state, config, statusCalls, crashVars, startupVars, stages, workerVars, requests,
                    pollVars, interrupts, stopCalls, result, exitCode >>

SchemaOutcomes ==
    { "ok", "login_error", "unsupported_check", "unsupported_interface",
      "unsupported_entity_type", "error_interface", "error_entity_type" }

\* Whether get_interface (service.py 348) returned and was assigned.
InterfaceAssigned(o) ==
    o \in {"ok", "unsupported_entity_type", "error_entity_type"}

\* How the try block of _load_def_schema is left (service.py 328-362).
SchemaExit(o) ==
    IF o = "ok" THEN "return"
    ELSE IF o \in {"unsupported_check", "unsupported_interface",
                   "unsupported_entity_type"} THEN "skip"
    ELSE "raise"

\* Service._load_def_schema (service.py 327-365), called at service.py 209.
LoadDefSchema ==
    /\ pc = "schema"
    /\ stages' = Append(stages, "schema")
    /\ \E o \in SchemaOutcomes :
        /\ nativeInterface' = (nativeInterface \/ InterfaceAssigned(o))
        /\ nativeEntityType' = (nativeEntityType \/ o = "ok")
        /\ logins' = IF o = "login_error" THEN logins ELSE login(logins)
        /\ openSessions' =
              finally_logout(o # "login_error", o # "login_error",
                             SchemaExit(o),
                             IF o = "login_error" THEN openSessions
                             ELSE login(openSessions))
        /\ IF SchemaExit(o) = "raise" THEN Raise ELSE pc' = "catalog"
    /\ UNCHANGED << state, config, statusCalls, crashVars, k8_templates, templates, platform,
                    cpmCalls, workerVars, requests, pollVars,
                    interrupts, stopCalls, result, exitCode >>

\* The default template looked up by name alone.
found_default_by_name(templs, name, revision) ==
    \E i \in DOMAIN templs : templs[i].name = name

\* service.py 411-414: some template has the default name and revision.
found_default_template(templs, name, revision) ==
    \E i \in DOMAIN templs :
        /\ Str(templs[i].revision) = Str(revision)
        /\ templs[i].name = name

\* service.py 398-427: the catalog result lets the server start.
catalog_usable(templs, name, revision) ==
    /\ templs # << >>
    /\ found_default_template(templs, name, revision)

\* The rule engine skipped on the way to the compute policies.
after_catalog_no_rules(api_version) ==
    IF api_version < VERSION_35 THEN "policy" ELSE "check"

\* The rules and the compute policies left out one api version too early.
after_catalog_gate_early(api_version) ==
    IF api_version < VERSION_35 - 1 THEN "rules" ELSE "check"

\* service.py 216: template rules and compute policies are processed only
\* for an api version below 35.0.
after_catalog(api_version) ==
    IF api_version < VERSION_35 THEN "rules" ELSE "check"

\* Errors raised in _load_template_definition_from_catalog: by Client(...)
\* (service.py 381-387, no client yet), by set_credentials (391, a client
\* without a session) or by the catalog query (395-396).
CatalogFaults == {"client_error", "login_error", "query_error"}

\* Service._load_template_definition_from_catalog (service.py 373-432),
\* called at service.py 213.
LoadTemplates ==
    /\ pc = "catalog"
    /\ stages' = Append(stages, "catalog")
    /\ \/ \E f \in CatalogFaults :
            /\ Raise
            /\ logins' = IF f = "query_error" THEN login(logins) ELSE logins
            /\ openSessions' =
                  finally_logout(f # "client_error", f = "query_error", "raise",
                                 IF f = "query_error" THEN login(openSessions)
                                 ELSE openSessions)
            /\ UNCHANGED << k8_templates, templates, exitCode >>
       \/ \E r \in CatalogResults :
            /\ k8_templates' = << r >>
            /\ logins' = login(logins)
            /\ IF catalog_usable(r, config.default_template_name,
                                 config.default_template_revision)
               THEN /\ templates' = r
                    /\ pc' = after_catalog(config.api_version)
                    /\ openSessions' =
                          finally_logout(TRUE, TRUE, "return",
                                         login(openSessions))
                    /\ UNCHANGED exitCode
               ELSE /\ SysExit1
                    /\ openSessions' =
                          finally_logout(TRUE, TRUE, "sys_exit",
                                         login(openSessions))
                    /\ UNCHANGED templates
    /\ UNCHANGED << state, config, statusCalls, crashVars, nativeInterface, nativeEntityType,
                    platform, cpmCalls, workerVars, requests, pollVars,
                    interrupts, stopCalls, result >>

\* TemplateRule.apply: the rule's compute policy replaces that of every
\* template the rule targets.
apply(rule, templs) ==
    [ i \in DOMAIN templs |->
        IF templs[i].name = rule.target
        THEN [ templs[i] EXCEPT !.compute_policy = rule.compute_policy ]
        ELSE templs[i] ]

RECURSIVE process_rules_reversed(_, _)
\* The rules applied from the last to the first.
process_rules_reversed(rules, templs) ==
    IF rules = << >> THEN templs
    ELSE apply(Head(rules), process_rules_reversed(Tail(rules), templs))

RECURSIVE process_rules(_, _)
\* service.py 448-464: the rules applied in list order.
process_rules(rules, templs) ==
    IF rules = << >> THEN templs
    ELSE process_rules(Tail(rules), apply(Head(rules), templs))

\* Service._process_template_rules (service.py 434-464), called at 219.
ProcessTemplateRules ==
    /\ pc = "rules"
    /\ stages' = Append(stages, "rules")
    /\ templates' = IF "template_rules" \notin DOMAIN config THEN templates
                    ELSE process_rules(config.template_rules, templates)
    /\ pc' = "policy"
    /\ UNCHANGED << state, config, statusCalls, crashVars, k8_templates, nativeInterface,
                    nativeEntityType,
                    openSessions, logins, platform, cpmCalls, workerVars, requests, pollVars, interrupts,
                    stopCalls, result, exitCode >>

\* A call to the compute policy backend: the operation, the policy (a name
\* for get and add, a reference for assign), the catalog item whose VMs it
\* acts on, and how it ended.
Call(op, pol, item, res) ==
    [op |-> op, policy |-> pol, item |-> item, res |-> res]

\* How a backend call of operation op ends: OperationNotSupportedException
\* when the platform lacks the operation, an error when a fault hits it,
\* else its normal result.
CallResult(op, plat, fault, normal) ==
    IF plat.unsupported = op THEN "unsupported"
    ELSE IF fault = op THEN "error"
    ELSE normal

\* service.py 516-520 and 521: OperationNotSupportedException is caught
\* around the whole loop, any other error leaves the function.
PolicyExit(res) ==
    IF res = "unsupported" THEN "skip"
    ELSE IF res = "error" THEN "raise"
    ELSE "return"

\* The policy created for every template, found or not.
create_always(res) == TRUE

\* except EntityNotFoundException (service.py 487-493): the policy is
\* created when the lookup reported that it does not exist.
create_needed(res) == res = "not_found"

RECURSIVE reconcile(_, _, _, _)
\* for template in self.config['broker']['templates'] (service.py 480-515):
\* acc holds the calls made so far, the policies that exist, and how the
\* loop was left.
reconcile(templs, plat, fault, acc) ==
    IF templs = << >> THEN acc
    ELSE
      LET t == Head(templs)
          policy_name == t.compute_policy
          item == t.catalog_item_name
          left(calls, pols, res) ==
              [calls |-> calls, policies |-> pols, exit |-> PolicyExit(res)]
      IN
      IF policy_name # ""
      THEN
        LET g == CallResult("get", plat, fault,
                            IF policy_name \in acc.policies
                            THEN "ok" ELSE "not_found")
            c1 == Append(acc.calls, Call("get", policy_name, "", g))
        IN
        IF g \in {"unsupported", "error"} THEN left(c1, acc.policies, g)
        ELSE
          LET a == IF create_needed(g)
                   THEN CallResult("add", plat, fault, "ok") ELSE "ok"
              c2 == IF create_needed(g)
                    THEN Append(c1, Call("add", policy_name, "", a)) ELSE c1
              pols == IF create_needed(g) /\ a = "ok"
                      THEN acc.policies \cup {policy_name} ELSE acc.policies
          IN
          IF a # "ok" THEN left(c2, pols, a)
          ELSE
            LET s == CallResult("assign", plat, fault, "ok")
                c3 == Append(c2, Call("assign", Href(policy_name), item, s))
            IN
            IF s # "ok" THEN left(c3, pols, s)
            ELSE reconcile(Tail(templs), plat, fault, left(c3, pols, s))
      ELSE
        LET r == CallResult("remove", plat, fault, "ok")
            c1 == Append(acc.calls, Call("remove", "", item, r))
        IN
        IF r # "ok" THEN left(c1, acc.policies, r)
        ELSE reconcile(Tail(templs), plat, fault, left(c1, acc.policies, r))

\* ComputePolicyManager(...) and the loop (service.py 477-515).
compliance(templs, plat, fault) ==
    LET i == CallResult("init", plat, fault, "ok")
        acc == [calls |-> << Call("init", "", "", i) >>,
                policies |-> plat.policies, exit |-> PolicyExit(i)]
    IN IF i # "ok" THEN acc ELSE reconcile(templs, plat, fault, acc)

\* Where an error that is not OperationNotSupportedException may be raised
\* in the stage: by the login, or by the first call of a backend operation.
PolicyFaults == {"none", "login"} \cup CpmOps

\* Service._process_template_compute_policy_compliance (service.py 466-523),
\* called at 225.
ProcessComputePolicy ==
    /\ pc = "policy"
    /\ stages' = Append(stages, "policy")
    /\ \E fault \in PolicyFaults :
        IF fault = "login"
        THEN /\ Raise
             /\ openSessions' =
                  finally_logout(FALSE, FALSE, "raise", openSessions)
             /\ UNCHANGED << logins, platform, cpmCalls >>
        ELSE LET r == compliance(templates, platform, fault) IN
             /\ logins' = login(logins)
             /\ cpmCalls' = cpmCalls \o r.calls
             /\ platform' = [platform EXCEPT !.policies = r.policies]
             /\ openSessions' =
                  finally_logout(TRUE, TRUE, r.exit, login(openSessions))
             /\ IF r.exit = "raise" THEN Raise ELSE pc' = "check"
    /\ UNCHANGED << state, config, statusCalls, crashVars, k8_templates, templates, nativeInterface,
                    nativeEntityType, workerVars, requests, pollVars, interrupts,
                    stopCalls, result, exitCode >>

\* check_cse_installation and PksCache (service.py 233-244)
CheckInstallation ==
    /\ pc = "check"
    /\ \E ok \in BOOLEAN : IF ok THEN pc' = "spawn" ELSE Raise
    /\ UNCHANGED << state, config, statusCalls, crashVars, startupVars, stages, workerVars, requests,
                    pollVars, interrupts, stopCalls, result, exitCode >>

\* ------------------------------------------------------- run: worker spawn
SpawnBody == {"construct", "thread_start", "append_thread", "append_consumer",
              "sleep"}

\* for n in range(num_consumers) (service.py 247-248); after the loop,
\* service.py 269.
SpawnLoop ==
    /\ pc = "spawn"
    /\ pc' = IF n < config.listeners THEN "construct" ELSE "set_running"
    /\ stages' = IF n = 0 THEN Append(stages, "workers") ELSE stages
    /\ UNCHANGED << state, config, statusCalls, crashVars, startupVars, workerVars, requests, pollVars,
                    interrupts, stopCalls, result, exitCode >>

\* A worker's error ending the spawn loop.
SpawnFailedEndsLoop ==
    /\ failures' = failures + 1
    /\ pc' = "set_running"
    /\ UNCHANGED << n, threads, consumers, started >>

\* except Exception (service.py 266-267): the error is logged and the loop
\* goes on with the next index.
SpawnFailed ==
    /\ failures' = failures + 1
    /\ n' = n + 1
    /\ pc' = "spawn"
    /\ UNCHANGED << threads, consumers, started >>

\* c = MessageConsumer(...) (service.py 250-253)
Construct ==
    /\ pc = "construct"
    /\ \/ pc' = "thread_start" /\ UNCHANGED workerVars
       \/ SpawnFailed
    /\ UNCHANGED << state, config, statusCalls, crashVars, startupVars, stages, requests, pollVars,
                    interrupts, stopCalls, result, exitCode >>

\* t = Thread(...); t.start() (service.py 254-260)
ThreadStart ==
    /\ pc = "thread_start"
    /\ \/ /\ started' = started \cup {n}
          /\ pc' = "append_thread"
          /\ UNCHANGED << n, threads, consumers, failures >>
       \/ SpawnFailed
    /\ UNCHANGED << state, config, statusCalls, crashVars, startupVars, stages, requests, pollVars,
                    interrupts, stopCalls, result, exitCode >>

\* self.threads.append(t) (service.py 261)
AppendThread ==
    /\ pc = "append_thread"
    /\ threads' = Append(threads, n)
    /\ pc' = "append_consumer"
    /\ UNCHANGED << state, config, statusCalls, crashVars, startupVars, stages, n, consumers, started,
                    failures, requests, pollVars, interrupts, stopCalls, result,
                    exitCode >>

\* self.consumers.append(c) (service.py 262)
AppendConsumer ==
    /\ pc = "append_consumer"
    /\ consumers' = Append(consumers, n)
    /\ pc' = "sleep"
    /\ UNCHANGED << state, config, statusCalls, crashVars, startupVars, stages, n, threads, started,
                    failures, requests, pollVars, interrupts, stopCalls, result,
                    exitCode >>

\* time.sleep(0.25) and the next iteration (service.py 263, 248)
Sleep ==
    /\ pc = "sleep"
    /\ n' = n + 1
    /\ pc' = "spawn"
    /\ UNCHANGED << state, config, statusCalls, crashVars, startupVars, stages, threads, consumers,
                    started, failures, requests, pollVars, interrupts, stopCalls,
                    result, exitCode >>

\* self._state = ServerState.RUNNING (service.py 269-291)
SetRunning ==
    /\ pc = "set_running"
    /\ state' = RUNNING
    /\ pc' = "poll"
    /\ UNCHANGED << config, statusCalls, crashVars, startupVars, stages, workerVars, requests, pollVars,
                    interrupts, stopCalls, result, exitCode >>

\* ------------------------------------------------------- run: polling loop
\* The polling loop left on STOPPING whatever the count.
drain_ignores_count(st, count) == st = STOPPING

\* The polling loop left on a count of 0 in state STOPPED, which the loop
\* never sees.
drain_wrong_state(st, count) == st = STOPPED /\ count = 0

\* service.py 296-297: the condition on which the polling loop is left.
drain_complete(st, count) == st = STOPPING /\ count = 0

\* One pass of the polling loop (service.py 293-298).  The count is read
\* only when the state is STOPPING (the `and` short-circuits).  The loop has
\* no bound: polls counts the passes up to MaxPolls and stays there.
Poll ==
    /\ pc = "poll"
    /\ IF state = STOPPING
       THEN /\ polls' = IF polls < MaxPolls THEN polls + 1 ELSE polls
            /\ lastCount' = active_requests_count(LiveThreads)
       ELSE UNCHANGED pollVars
    /\ pc' = IF drain_complete(state, active_requests_count(LiveThreads))
             THEN "stop_consumers" ELSE "poll"
    /\ UNCHANGED << state, config, statusCalls, crashVars, startupVars, stages, workerVars, requests,
                    interrupts, stopCalls, result, exitCode >>

\* An error of the polling loop that stops the consumers and sets STOPPED
\* before the process exits.
PollErrorCleansUp ==
    /\ pc = "poll"
    /\ SysExit1
    /\ stopCalls' = stopCalls \o consumers
    /\ state' = STOPPED
    /\ UNCHANGED << config, statusCalls, crashVars, startupVars, stages, workerVars,
                    requests, pollVars, interrupts, result >>

\* except Exception in the polling loop (service.py 301-305)
PollError ==
    /\ pc = "poll"
    /\ SysExit1
    /\ UNCHANGED << state, config, statusCalls, crashVars, startupVars, stages, workerVars, requests,
                    pollVars, interrupts, stopCalls, result >>

\* ------------------------------------------------------ run: shutdown
RECURSIVE stop_all_until_error(_, _)
\* The stop loop ended by the first stop() that raises.
stop_all_until_error(cs, errs) ==
    IF cs = << >> THEN << >>
    ELSE IF Head(cs) \in errs THEN << Head(cs) >>
    ELSE << Head(cs) >> \o stop_all_until_error(Tail(cs), errs)

\* for c in self.consumers: c.stop() (service.py 309-313): the consumers on
\* which stop() is called, in order, when the stop() of those in errs
\* raises: the error is caught and logged inside the loop body, so the loop
\* goes on to the next consumer.
stop_all(cs, errs) == cs

\* service.py 307-316: the consumers are stopped and the state becomes
\* STOPPED.
StopConsumers ==
    /\ pc = "stop_consumers"
    /\ \E errs \in SUBSET { consumers[i] : i \in DOMAIN consumers } :
        /\ stopErrors' = errs
        /\ stopCalls' = stopCalls \o stop_all(consumers, errs)
    /\ state' = STOPPED
    /\ pc' = "done"
    /\ UNCHANGED << config, statusCalls, ownStops, startupVars, stages, workerVars, requests,
                    pollVars, interrupts, result, exitCode >>

\* ------------------------------------------------------------- interrupts
\* KeyboardInterrupt in the try block of the spawn loop (service.py 264-265):
\* break.
InterruptSpawn ==
    /\ pc \in SpawnBody
    /\ pc' = "set_running"
    /\ interrupts' = interrupts \cup {"spawn"}
    /\ UNCHANGED << state, config, statusCalls, crashVars, startupVars, stages, workerVars, requests,
                    pollVars, stopCalls, result, exitCode >>

\* An interrupt that the polling loop swallows.
InterruptPollIgnored ==
    /\ pc = "poll"
    /\ pc' = "poll"
    /\ interrupts' = interrupts \cup {"poll"}
    /\ UNCHANGED << state, config, statusCalls, crashVars, startupVars, stages, workerVars, requests,
                    pollVars, stopCalls, result, exitCode >>

\* KeyboardInterrupt in the try block of the polling loop, raised by
\* signal_handler (service.py 61-63, 299-300): break.
InterruptPoll ==
    /\ pc = "poll"
    /\ pc' = "stop_consumers"
    /\ interrupts' = interrupts \cup {"poll"}
    /\ UNCHANGED << state, config, statusCalls, crashVars, startupVars, stages, workerVars, requests,
                    pollVars, stopCalls, result, exitCode >>

\* KeyboardInterrupt anywhere else in run(): no handler, it leaves run().
InterruptElsewhere ==
    /\ pc \in {"config", "schema", "catalog", "rules", "policy", "check",
               "spawn", "set_running", "stop_consumers"}
    /\ Raise
    /\ interrupts' = interrupts \cup {"uncaught"}
    /\ UNCHANGED << state, config, statusCalls, crashVars, startupVars, stages, workerVars, requests,
                    pollVars, stopCalls, result, exitCode >>

\* --------------------------------------------------------------- workers
\* A worker whose consumer raised stopping the consumers of all workers.
ConsumerCrashStopsAll(i) ==
    /\ ProcessAlive
    /\ i \in started \ ownStops
    /\ ownStops' = started
    /\ UNCHANGED << pc, state, config, statusCalls, stopErrors, startupVars, stages,
                    workerVars, requests, pollVars, interrupts, stopCalls,
                    result, exitCode >>

\* consumer_thread (service.py 66-73) of worker i: c.run() raised, the
\* except clause logs the error and calls c.stop(), and the thread ends.
ConsumerCrash(i) ==
    /\ ProcessAlive
    /\ i \in started \ ownStops
    /\ ownStops' = ownStops \cup {i}
    /\ UNCHANGED << pc, state, config, statusCalls, stopErrors, startupVars, stages,
                    workerVars, requests, pollVars, interrupts, stopCalls,
                    result, exitCode >>

\* ------------------------------------------------------------ environment
\* A started worker begins to process a request: a VcdBroker thread starts.
RequestStart ==
    /\ ProcessAlive
    /\ started # {}
    /\ requests < MaxRequests
    /\ requests' = requests + 1
    /\ UNCHANGED << pc, state, config, statusCalls, crashVars, startupVars, stages, workerVars, pollVars,
                    interrupts, stopCalls, result, exitCode >>

\* A VcdBroker thread ends.
RequestFinish ==
    /\ ProcessAlive
    /\ requests > 0
    /\ requests' = requests - 1
    /\ UNCHANGED << pc, state, config, statusCalls, crashVars, startupVars, stages, workerVars, pollVars,
                    interrupts, stopCalls, result, exitCode >>

Next ==
    \/ \E a \in ActionValues : UpdateStatus(a)
    \/ LoadConfig
    \/ LoadDefSchema
    \/ LoadTemplates
    \/ ProcessTemplateRules
    \/ ProcessComputePolicy
    \/ CheckInstallation
    \/ SpawnLoop
    \/ Construct
    \/ ThreadStart
    \/ AppendThread
    \/ AppendConsumer
    \/ Sleep
    \/ SetRunning
    \/ Poll
    \/ PollError
    \/ StopConsumers
    \/ InterruptSpawn
    \/ InterruptPoll
    \/ InterruptElsewhere
    \/ RequestStart
    \/ RequestFinish

Spec == Init /\ [][Next]_vars

\* The startup of run() up to the polling loop, for a server without
\* listeners that nobody calls and that takes no request.
NextStartup ==
    \/ LoadConfig
    \/ LoadDefSchema
    \/ LoadTemplates
    \/ ProcessTemplateRules
    \/ ProcessComputePolicy
    \/ CheckInstallation
    \/ SpawnLoop
    \/ SetRunning
    \/ InterruptElsewhere

StartupSpec == InitStartup /\ [][NextStartup]_vars

\* run() and its workers while the server takes no request: every action
\* of Next but the start and the end of a request, and the worker threads,
\* whose consumer may raise at any time.
NextWorker ==
    \/ \E a \in ActionValues : UpdateStatus(a)
    \/ LoadConfig
    \/ LoadDefSchema
    \/ LoadTemplates
    \/ ProcessTemplateRules
    \/ ProcessComputePolicy
    \/ CheckInstallation
    \/ SpawnLoop
    \/ Construct
    \/ ThreadStart
    \/ AppendThread
    \/ AppendConsumer
    \/ Sleep
    \/ SetRunning
    \/ Poll
    \/ PollError
    \/ StopConsumers
    \/ InterruptSpawn
    \/ InterruptPoll
    \/ InterruptElsewhere
    \/ \E i \in 0..MaxListeners : ConsumerCrash(i)

WorkerSpec == Init /\ [][NextWorker]_vars

\* run() with update_status called from several threads, every read and
\* every write of the state being a step of its own; the server takes no
\* request.
NextRace ==
    \/ \E t \in Callers, a \in ActionValues : CallBegin(t, a)
    \/ \E t \in Callers : CallStep(t)
    \/ LoadConfig
    \/ LoadDefSchema
    \/ LoadTemplates
    \/ ProcessTemplateRules
    \/ ProcessComputePolicy
    \/ CheckInstallation
    \/ SpawnLoop
    \/ Construct
    \/ ThreadStart
    \/ AppendThread
    \/ AppendConsumer
    \/ Sleep
    \/ SetRunning
    \/ Poll
    \/ PollError
    \/ StopConsumers
    \/ InterruptSpawn
    \/ InterruptPoll
    \/ InterruptElsewhere

RaceSpec == Init /\ [][NextRace]_vars

\* Spec with a polling loop that is scheduled fairly: the main thread, once
\* in the loop (service.py 293-298) or past it (307-315), goes on running.
FairSpec == Spec /\ WF_vars(Poll) /\ WF_vars(StopConsumers)

\* ================================================================ claims
Range(q) == { q[i] : i \in DOMAIN q }
StartupPcs == {"config", "schema", "catalog", "rules", "policy", "check"}
AfterSpawn == {"set_running", "poll", "stop_consumers", "done"}
Errors == {"BadRequestError", "CseServerError"}
ShutdownTexts ==
    { "Shutting down CSE",
      "Shutting down CSE CSE will finish processing n requests." }

\* The transition table of the lifecycle state machine: new state and kind
\* of outcome for each state in {RUNNING, DISABLED, STOPPING} and each action.
TableState(st, a) ==
    CASE st = RUNNING /\ a = ENABLE -> RUNNING
      [] st = RUNNING /\ a = DISABLE -> DISABLED
      [] st = RUNNING /\ a = STOP -> RUNNING
      [] st = DISABLED /\ a = ENABLE -> RUNNING
      [] st = DISABLED /\ a = DISABLE -> DISABLED
      [] st = DISABLED /\ a = STOP -> STOPPING
      [] st = STOPPING -> STOPPING

TableRejected(st, a) ==
    \/ st = RUNNING /\ a = STOP
    \/ st = STOPPING /\ a \in {ENABLE, DISABLE}

\* C1: for every state in {RUNNING, DISABLED, STOPPING} and every action in
\* {ENABLE, DISABLE, STOP}, an update_status call gives exactly the result of
\* the transition table: the table's new state, an error (and no state
\* change) for the rejected pairs, a message for the others, and the
\* shutdown message for STOP while DISABLED or STOPPING.
C1_TransitionTable ==
    [][ \A a \in ServerAction :
          (state \in {RUNNING, DISABLED, STOPPING} /\ UpdateStatus(a)) =>
            /\ state' = TableState(state, a)
            /\ (result'.kind = "BadRequestError") = TableRejected(state, a)
            /\ (result'.kind = "ok") = ~TableRejected(state, a)
            /\ (a = STOP /\ state # RUNNING) => result'.text \in ShutdownTexts
            /\ (result'.n > 0) =
                 (a = STOP /\ state # RUNNING /\ requests > 0) ]_vars

\* C1 witness: DISABLE was accepted in state RUNNING.
C1_Witness ==
    /\ state = DISABLED
    /\ result.before = RUNNING
    /\ result.text = "CSE has been disabled."

\* C2: an update_status call in state STOPPED, or with a value that is no
\* ServerAction in any state, fails with BadRequestError.
C2_InvalidRequest ==
    [][ \A a \in ActionValues :
          (UpdateStatus(a) /\ (a = INVALID \/ state = STOPPED)) =>
            result'.kind = "BadRequestError" ]_vars

\* C3: an update_status call that is rejected with an error leaves the
\* state, the tracked threads and the tracked consumers unchanged.
C3_RejectedFrame ==
    [][ \A a \in ActionValues :
          (UpdateStatus(a) /\ result'.kind \in Errors) =>
            /\ state' = state
            /\ threads' = threads
            /\ consumers' = consumers ]_vars

\* C3 witness: STOP was rejected in state RUNNING with workers tracked.
C3_Witness ==
    /\ result.kind = "BadRequestError"
    /\ result.before = RUNNING
    /\ state = RUNNING
    /\ Len(threads) = 2
    /\ Len(consumers) = 2

\* C4: while the state is STOPPING a STOP keeps it STOPPING and returns a
\* message, a poll that goes on polling keeps it STOPPING, and the state
\* leaves STOPPING only when run() sets it to STOPPED after its loop.
C4_StopIdempotent ==
    [][ /\ (state = STOPPING /\ UpdateStatus(STOP)) =>
              (state' = STOPPING /\ result'.kind = "ok"
                 /\ result'.text \in ShutdownTexts)
        /\ (state = STOPPING /\ pc = "poll" /\ pc' = "poll") =>
              state' = STOPPING
        /\ (state = STOPPING /\ state' # STOPPING) =>
              (pc = "stop_consumers" /\ state' = STOPPED) ]_vars

\* C4 witness: a STOP was repeated in state STOPPING after two polls.
C4_Witness ==
    /\ state = STOPPING
    /\ pc = "poll"
    /\ polls = 2
    /\ result.before = STOPPING
    /\ result.kind = "ok"
    /\ result.n # lastCount

\* C5: without an interrupt the polling loop is left only by a poll that
\* saw state STOPPING and 0 active requests; after every poll that saw a
\* count above 0 the loop goes on with the state still STOPPING, and the
\* state is STOPPED only once the loop is left.
C5_DrainOnZero ==
    /\ (pc \in {"stop_consumers", "done"} /\ "poll" \notin interrupts) =>
          (polls >= 1 /\ lastCount = 0)
    /\ (pc = "stop_consumers" /\ "poll" \notin interrupts) => state = STOPPING
    /\ (pc = "poll" /\ polls >= 1) => (lastCount > 0 /\ state = STOPPING)
    /\ pc \in {"poll", "stop_consumers"} => state # STOPPED
    /\ pc = "done" => state = STOPPED

\* C5 witness: the state became STOPPED after the third poll, the first
\* two having seen requests.
C5_Witness ==
    /\ pc = "done"
    /\ state = STOPPED
    /\ "poll" \notin interrupts
    /\ polls = 3
    /\ lastCount = 0

\* Some template of r has the configured default name and the configured
\* default revision (as text); false of the empty list.
IsDefault(r) ==
    \E t \in Range(r) :
        /\ t.name = config.default_template_name
        /\ Str(t.revision) = Str(config.default_template_revision)

\* C6: when the catalog query returned no template, or none with the
\* default name and revision, run() has ended in sys.exit(1) with the state
\* STOPPED and no worker started or tracked; and before the worker stage the
\* state is STOPPED and no worker is started.
C6_NoDefaultTemplateIsFatal ==
    /\ (k8_templates # << >> /\ ~IsDefault(k8_templates[1])) =>
          /\ pc = "exited"
          /\ exitCode = 1
          /\ state = STOPPED
          /\ started = {} /\ threads = << >> /\ consumers = << >>
    /\ pc \in StartupPcs =>
          (state = STOPPED /\ started = {} /\ threads = << >>)

\* C6 witness: the catalog held a template of the default name at another
\* revision, and run() exited.
C6_Witness ==
    /\ pc = "exited"
    /\ k8_templates = << << Template("photon-v2", "i2", "p1") >> >>

\* C7: when the spawn loop was not interrupted, failures of worker
\* constructions or starts do not end run(): after the loop exactly
\* listeners - failures workers are tracked, in threads and in consumers,
\* and run() goes on to RUNNING.
C7_PartialPool ==
    /\ (pc \in AfterSpawn /\ "spawn" \notin interrupts) =>
          /\ failures \in 0..config.listeners
          /\ Len(threads) = config.listeners - failures
          /\ Len(consumers) = config.listeners - failures
    /\ (pc = "raised" /\ "workers" \in Range(stages)) =>
          "uncaught" \in interrupts
    /\ (pc = "poll" /\ result.kind = "none") => state = RUNNING

\* C7 witness: of two listeners the second failed, one worker is tracked
\* and the state is RUNNING.
C7_Witness ==
    /\ pc = "poll"
    /\ state = RUNNING
    /\ interrupts = {}
    /\ config.listeners = 2
    /\ failures = 1
    /\ threads = << 0 >>
    /\ consumers = << 0 >>

\* Position of a stage in the order of the system overview.
OverviewRank(s) ==
    CASE s = "catalog" -> 1 [] s = "rules" -> 2 [] s = "policy" -> 3
      [] s = "schema" -> 4 [] s = "workers" -> 5

\* C8: the startup stages begin in the order catalog loader, rule engine,
\* policy reconciler, schema loader, worker pool.
C8_OverviewOrder ==
    \A i, j \in DOMAIN stages :
        i < j => OverviewRank(stages[i]) < OverviewRank(stages[j])

\* The stages run() goes through for an api version, in order.
StagesFor(api_version) ==
    IF api_version < VERSION_35
    THEN << "schema", "catalog", "rules", "policy", "workers" >>
    ELSE << "schema", "catalog", "workers" >>

\* C8 (amended): the startup stages begin in the order schema loader,
\* catalog loader, rule engine, policy reconciler, worker pool, the rule
\* engine and the policy reconciler being left out for an api version of
\* 35.0 or above; every stage has begun when run() starts polling.
C8_CodeOrder ==
    /\ Len(stages) <= Len(StagesFor(config.api_version))
    /\ stages = SubSeq(StagesFor(config.api_version), 1, Len(stages))
    /\ pc = "poll" => stages = StagesFor(config.api_version)

\* C8 witness: all five stages have run and run() is polling.
C8_Witness ==
    /\ pc = "poll"
    /\ stages = << "schema", "catalog", "rules", "policy", "workers" >>

\* C9: after an interrupt caught in the spawn loop run() does not enter the
\* polling loop and the state does not become RUNNING.
C9_SpawnInterruptAborts ==
    "spawn" \in interrupts => (pc # "poll" /\ state # RUNNING)

\* C10: an interrupt in the polling loop ends the loop at once, whatever
\* the state and the active-request count: run() is then stopping the
\* consumers or has returned (or a further interrupt has left run()); when
\* run() has returned, stop() has been called on every tracked consumer and
\* the state is STOPPED.
C10_PollInterrupt ==
    /\ "poll" \in interrupts => pc \in {"stop_consumers", "done", "raised"}
    /\ ("poll" \in interrupts /\ pc = "raised") => "uncaught" \in interrupts
    /\ pc = "done" => (state = STOPPED /\ stopCalls = consumers)

\* C10 witness: run() returned after an interrupt that came in state
\* RUNNING (update_status was never called) with requests active.
C10_Witness ==
    /\ pc = "done"
    /\ "poll" \in interrupts
    /\ result.kind = "none"
    /\ polls = 0
    /\ requests > 0
    /\ Len(consumers) = 2
    /\ stopCalls = consumers
    /\ state = STOPPED

\* A step that changes the state as a row of the transition table does,
\* leaving run() where it is.
TableStep ==
    /\ pc' = pc
    /\ \E a \in ServerAction :
          /\ state \in {RUNNING, DISABLED, STOPPING}
          /\ ~TableRejected(state, a)
          /\ state' = TableState(state, a)

\* C11: every change of the state is a transition of the table made by
\* update_status, or the step from STOPPING to STOPPED that run() makes when
\* the drain is complete; so STOPPED is never entered from RUNNING or
\* DISABLED, and RUNNING is never entered from anything but DISABLED.
C11_OnlyTableTransitions ==
    [][ state' # state =>
          /\ TableStep \/ (state = STOPPING /\ state' = STOPPED)
          /\ state' = STOPPED => state \notin {RUNNING, DISABLED}
          /\ state' = RUNNING => state = DISABLED ]_vars

\* C11 (amended): every change of the state is a transition of the table
\* made by update_status, or one of the two assignments of run(): RUNNING
\* after the spawn loop, made in state STOPPED, and STOPPED after the polling
\* loop, made in state STOPPING when the drain completed and in any of
\* RUNNING, DISABLED, STOPPING when an interrupt ended the loop.
C11_StateAssignments ==
    [][ state' # state =>
          \/ TableStep
          \/ /\ pc = "set_running" /\ pc' = "poll"
             /\ state = STOPPED /\ state' = RUNNING
          \/ /\ pc = "stop_consumers" /\ pc' = "done"
             /\ state' = STOPPED
             /\ state = STOPPING \/ "poll" \in interrupts ]_vars

\* C11 witness: run() set the state to STOPPED in state DISABLED, which
\* update_status had entered from the RUNNING that run() had set.
C11_Witness ==
    /\ pc = "done"
    /\ state = STOPPED
    /\ result.before = RUNNING
    /\ result.text = "CSE has been disabled."
    /\ "poll" \in interrupts

\* C12: whenever one of the three stages that open a platform session
\* (schema load, catalog load, policy reconciliation) has been left, by a
\* return, by the skip on an unsupported feature, by sys.exit or by an
\* exception, every session opened so far has been logged out.
C12_SessionsClosed ==
    /\ openSessions = 0
    /\ logins <= Len(stages)
    /\ (pc \in {"check", "spawn"} /\ config.api_version < VERSION_35) =>
          logins = 3

\* C12 witness: the catalog stage logged in and ended run() with
\* sys.exit(1); both sessions opened until then are closed.
C12_Witness ==
    /\ pc = "exited"
    /\ exitCode = 1
    /\ stages = << "schema", "catalog" >>
    /\ logins = 2
    /\ openSessions = 0

\* C13: once the schema stage has been left without ending run(), whether
\* the schema was loaded or the platform reported the feature unsupported
\* (at the support check, at the interface fetch or at the entity-type
\* fetch), the native interface and the native entity type are both present
\* or both absent.
C13_SchemaPair ==
    (pc \notin {"config", "schema", "raised"}) =>
        (nativeInterface = nativeEntityType)

\* The calls of the log that attach a policy or detach all policies.
IsAttachOrDetach(c) == c.op \in {"assign", "remove"}
IsLookup(c) == c.op = "get"
Named(t) == t.compute_policy # ""

\* The reconciliation went through the whole template list: the backend
\* was set up and no call reported an unsupported operation or an error.
ReconciliationCompleted ==
    /\ cpmCalls # << >>
    /\ \A k \in DOMAIN cpmCalls : cpmCalls[k].res \in {"ok", "not_found"}

\* C14: the reconciliation goes through the templates in list order; for a
\* template with a policy name it looks the policy up, creates it exactly
\* when the lookup reported not-found, and attaches once, passing the
\* reference of the policy looked up or created; for a template without a
\* policy name it detaches all policies once, with no lookup and no create.
C14_PerTemplate ==
    /\ \A k \in DOMAIN cpmCalls :
        LET c == cpmCalls[k] IN
        /\ c.op = "add" =>
              /\ k > 1
              /\ cpmCalls[k-1].op = "get"
              /\ cpmCalls[k-1].res = "not_found"
              /\ cpmCalls[k-1].policy = c.policy
        /\ (c.op = "get" /\ c.res = "not_found") =>
              /\ k < Len(cpmCalls)
              /\ cpmCalls[k+1].op = "add"
              /\ cpmCalls[k+1].policy = c.policy
        /\ (c.op \in {"get", "add"} /\ c.res = "ok") =>
              /\ k < Len(cpmCalls)
              /\ cpmCalls[k+1].op = "assign"
        /\ c.op = "assign" =>
              /\ k > 1
              /\ cpmCalls[k-1].op \in {"get", "add"}
              /\ cpmCalls[k-1].res = "ok"
              /\ c.policy = Href(cpmCalls[k-1].policy)
        /\ c.op = "remove" =>
              /\ k > 1
              /\ cpmCalls[k-1].op \in {"init", "assign", "remove"}
    /\ ReconciliationCompleted =>
        LET acts == SelectSeq(cpmCalls, IsAttachOrDetach) IN
        /\ Len(acts) = Len(templates)
        /\ Len(SelectSeq(cpmCalls, IsLookup)) = Len(SelectSeq(templates, Named))
        /\ \A i \in DOMAIN templates :
            /\ acts[i].item = templates[i].catalog_item_name
            /\ IF Named(templates[i])
               THEN /\ acts[i].op = "assign"
                    /\ acts[i].policy = Href(templates[i].compute_policy)
               ELSE acts[i].op = "remove"

\* C14 witness: without template rules, the first template names a policy
\* that did not exist (looked up, created, attached) and the second names
\* none (all policies detached).
C14_Witness ==
    /\ pc = "check"
    /\ "template_rules" \notin DOMAIN config
    /\ cpmCalls =
         << Call("init", "", "", "ok"),
            Call("get", "p1", "", "not_found"),
            Call("add", "p1", "", "ok"),
            Call("assign", "href-p1", "ubuntu.ova", "ok"),
            Call("remove", "", "photon-v2.ova", "ok") >>

\* Some call to the policy backend ended in the given way.
SomeCallEnded(res) == \E k \in DOMAIN cpmCalls : cpmCalls[k].res = res

\* C15: when a call to the policy backend reported the feature unsupported,
\* no policy was created, attached or detached for any template in this
\* startup, and the startup goes on (only an interrupt ends run()); when a
\* call ended in any other error, run() was left by the error and the state
\* is not RUNNING.
C15_UnsupportedSkipsAll ==
    /\ SomeCallEnded("unsupported") =>
          /\ \A k \in DOMAIN cpmCalls :
                ~(cpmCalls[k].op \in {"add", "assign", "remove"}
                    /\ cpmCalls[k].res = "ok")
          /\ pc = "raised" => "uncaught" \in interrupts
    /\ SomeCallEnded("error") => (pc = "raised" /\ state # RUNNING)

\* C16: when run() has left its polling loop and returned, stop() has been
\* called once on every tracked consumer, in list order, also on those that
\* come after a consumer whose stop() raised, and the state is STOPPED.
C16_StopAll ==
    pc = "done" =>
        /\ Len(stopCalls) = Len(consumers)
        /\ \A i \in DOMAIN consumers : stopCalls[i] = consumers[i]
        /\ stopErrors \subseteq Range(consumers)
        /\ state = STOPPED

\* C16 witness: the stop() of the first of two consumers raised, stop() was
\* called on the second all the same, and the state is STOPPED.
C16_Witness ==
    /\ pc = "done"
    /\ consumers = << 0, 1 >>
    /\ stopErrors = {0}
    /\ stopCalls = << 0, 1 >>
    /\ state = STOPPED

\* C17: a worker whose consumer run loop raised stops its own consumer and
\* ends; the step changes nothing else: the service state, the tracked
\* threads and consumers, the consumers of the other workers and the
\* position of the main thread, which goes on polling.
C17_CrashIsLocal ==
    [][ ownStops' # ownStops =>
          /\ \E i \in started \ ownStops : ownStops' = ownStops \cup {i}
          /\ UNCHANGED << state, threads, consumers, started, pc, stopCalls,
                          stopErrors, exitCode >> ]_vars

\* C17 witness: the second of two workers ended on an error of its
\* consumer; both are still tracked, the first is untouched and run() is
\* polling in state RUNNING.
C17_Witness ==
    /\ pc = "poll"
    /\ state = RUNNING
    /\ ownStops = {1}
    /\ started = {0, 1}
    /\ threads = << 0, 1 >>
    /\ consumers = << 0, 1 >>
    /\ stopCalls = << >>

\* The rules of the config file; none when the key is absent.
ConfiguredRules ==
    IF "template_rules" \in DOMAIN config THEN config.template_rules ELSE << >>

\* The compute policy that the rules leave on template t of the catalog:
\* that of the last rule that targets t, or its own when no rule does.
PolicyAfterRules(t) ==
    LET hits == { k \in DOMAIN ConfiguredRules :
                    ConfiguredRules[k].target = t.name }
    IN IF hits = {} THEN t.compute_policy
       ELSE ConfiguredRules[CHOOSE k \in hits : \A h \in hits : h <= k]
              .compute_policy

\* C18: the rules are applied once each, in the order of the config file,
\* before the reconciliation starts: once the rule stage is over every
\* template carries the policy of the last rule that targets it (p2 when
\* two rules set p1 and then p2), and nothing else of it has changed; a
\* missing or empty rule list leaves the templates as the catalog gave them;
\* every attach of the reconciliation passes the policy left by the rules.
C18_RulesInOrder ==
    /\ cpmCalls # << >> => "rules" \in Range(stages)
    /\ (templates # << >> /\ "rules" \notin Range(stages)) =>
          templates = k8_templates[1]
    /\ "rules" \in Range(stages) =>
          /\ Len(templates) = Len(k8_templates[1])
          /\ \A i \in DOMAIN templates :
                templates[i] =
                  [ k8_templates[1][i] EXCEPT
                      !.compute_policy = PolicyAfterRules(k8_templates[1][i]) ]
          /\ ConfiguredRules = << >> => templates = k8_templates[1]
    /\ \A k \in DOMAIN cpmCalls :
          cpmCalls[k].op = "assign" =>
            \E i \in DOMAIN templates :
                /\ templates[i].catalog_item_name = cpmCalls[k].item
                /\ cpmCalls[k].policy =
                      Href(PolicyAfterRules(k8_templates[1][i]))

\* C18 witness: two rules set the policy of template photon-v2 to p1 and
\* then to p2; the template carries p2 and p2 was attached to it.
C18_Witness ==
    /\ pc = "check"
    /\ "template_rules" \in DOMAIN config
    /\ config.template_rules =
          << Rule("photon-v2", "p1"), Rule("photon-v2", "p2") >>
    /\ templates[2].name = "photon-v2"
    /\ templates[2].compute_policy = "p2"
    /\ \E k \in DOMAIN cpmCalls :
          cpmCalls[k] = Call("assign", "href-p2", "photon-v2.ova", "ok")
    /\ \A k \in DOMAIN cpmCalls :
          cpmCalls[k].item = "photon-v2.ova" => cpmCalls[k].policy = "href-p2"

\* Template t has been reconciled: its policy was attached to it, or, when
\* it names none, all policies were detached from it.
Reconciled(t) ==
    \E k \in DOMAIN cpmCalls :
        cpmCalls[k] =
          IF Named(t)
          THEN Call("assign", Href(t.compute_policy), t.catalog_item_name, "ok")
          ELSE Call("remove", "", t.catalog_item_name, "ok")

\* The startup reached RUNNING on a platform that supports every operation
\* on compute policies.
RunningWithPolicies ==
    /\ pc = "poll"
    /\ state = RUNNING
    /\ platform.unsupported = "none"

\* C19: on every startup that reaches RUNNING on a platform that supports
\* compute policies, whatever the api version, every loaded template has
\* been reconciled.
C19_AlwaysReconciled ==
    RunningWithPolicies =>
        \A i \in DOMAIN templates : Reconciled(templates[i])

\* C19 (amended): on every startup that reaches RUNNING on a platform that
\* supports compute policies, every loaded template has been reconciled
\* when the api version is below 35.0; when it is 35.0 or above no call to
\* the policy backend was made.
C19_ReconciledBelow35 ==
    RunningWithPolicies =>
        IF config.api_version < VERSION_35
        THEN \A i \in DOMAIN templates : Reconciled(templates[i])
        ELSE cpmCalls = << >>

\* C19 witness: at api version 34 the server is RUNNING, the policy that
\* existed was attached to the first template and all policies were
\* detached from the second.
C19_Witness ==
    /\ RunningWithPolicies
    /\ config.api_version = 34
    /\ Len(templates) = 2
    /\ cpmCalls =
         << Call("init", "", "", "ok"),
            Call("get", "p1", "", "ok"),
            Call("assign", "href-p1", "ubuntu.ova", "ok"),
            Call("remove", "", "photon-v2.ova", "ok") >>

\* C20: under a fair scheduling of the polling loop, once STOP was accepted
\* and the active-request count is 0 for good, the state becomes STOPPED:
\* no run stays for ever in state STOPPING with no request active, unless
\* an error or an uncaught interrupt has ended run().  And there is no
\* timeout: a step made in state STOPPING with requests active leaves the
\* state STOPPING, and leaves run() in its polling loop unless the step is
\* an interrupt or an error of the loop.
C20_DrainTerminates ==
    /\ []<>~( /\ state = STOPPING
              /\ requests = 0
              /\ pc \notin {"exited", "raised"} )
    /\ [][ (state = STOPPING /\ pc = "poll" /\ requests > 0) =>
              /\ state' = STOPPING
              /\ \/ pc' = "poll"
                 \/ "poll" \in interrupts'
                 \/ pc' = "exited" ]_vars

\* C20 witness: STOP was accepted with two requests active, the loop polled
\* MaxPolls times or more without an interrupt, the last poll saw no request
\* and the state is STOPPED.
C20_Witness ==
    /\ pc = "done"
    /\ state = STOPPED
    /\ interrupts = {}
    /\ result.text = "Shutting down CSE CSE will finish processing n requests."
    /\ result.n = 2
    /\ polls = MaxPolls
    /\ requests = 0

\* C21: an error raised in the polling loop, other than an interrupt, ends
\* the process with exit code 1 instead of polling on, and leaves the state
\* and the consumers as they were: once the process has exited from the
\* polling loop the state is not STOPPED and stop() was called on no
\* consumer.
C21_PollErrorExits ==
    /\ [][ PollError =>
              /\ pc' = "exited"
              /\ exitCode' = 1
              /\ state' = state
              /\ stopCalls' = stopCalls ]_vars
    /\ []( (pc = "exited" /\ "workers" \in Range(stages)) =>
              /\ exitCode = 1
              /\ state \in {RUNNING, DISABLED, STOPPING}
              /\ stopCalls = << >>
              /\ stopErrors = {}
              /\ "poll" \notin interrupts )

\* C21 witness: the polling loop failed while the server was draining two
\* requests with two consumers tracked; the process exited with code 1, the
\* state is still STOPPING and no consumer was stopped.
C21_Witness ==
    /\ pc = "exited"
    /\ exitCode = 1
    /\ state = STOPPING
    /\ polls >= 1
    /\ requests = 2
    /\ consumers = << 0, 1 >>
    /\ stopCalls = << >>

\* C22: with update_status calls of several threads interleaved step by
\* step with each other and with run(), a state that is STOPPING does not
\* become RUNNING or DISABLED, and a state that run() has set to STOPPED
\* does not become RUNNING or DISABLED.
C22_StoppingIsFinal ==
    [][ /\ state = STOPPING => state' \in {STOPPING, STOPPED}
        /\ (state = STOPPED /\ pc = "done") => state' = STOPPED ]_vars

\* C23: outside the body of the spawn loop, every worker thread that was
\* started is tracked with its consumer: threads and consumers have the
\* same length and hold the same workers index by index, no started worker
\* is missing from them, and once run() has returned stop() was called on
\* the consumer of every started worker.
C23_StartedAreTracked ==
    /\ pc \notin SpawnBody =>
          /\ Len(threads) = Len(consumers)
          /\ \A i \in DOMAIN threads : threads[i] = consumers[i]
          /\ started = Range(consumers)
    /\ pc = "done" => started \subseteq Range(stopCalls)

====
